---- MODULE Spec2Model ----
(***************************************************************************)
(* Model of the chat relay (main.go): the handler registered on /api/chat, *)
(* the global conversation `messages` and the mutex `mu` that guards it.   *)
(*                                                                         *)
(* Each element of Handlers is one goroutine of net/http serving one       *)
(* request at a time; when its request is finished it serves the next.     *)
(***************************************************************************)
EXTENDS Integers, Sequences, FiniteSets, TLC

\* ------------------------------------------------------------------ bounds
\* Number of requests that can be in flight at the same time.
NumHandlers == 2

Handlers == 1..NumHandlers

\* Message texts sent by clients, and reply texts produced by the model.
Msgs == {"hi"}
Replies == {"R"}

\* ------------------------------------------------------- program constants
\* const BODHA_ROAST_SYSTEM_PROMPT (text abridged)
BODHA_ROAST_SYSTEM_PROMPT == "You are Bodha"

\* the threshold of `if len(messages) > 10`
MaxTurns == 10

StatusOK == 200
StatusMethodNotAllowed == 405
StatusInternalServerError == 500

\* ------------------------------------------------------------------- types
\* type Message struct { Role, Content string }
Message(role, content) == [Role |-> role, Content |-> content]

SystemTurn == Message("system", BODHA_ROAST_SYSTEM_PROMPT)

\* --------------------------------------------------------- request bodies
\* A request body is the stream of top-level items json.Decoder reads from:
\* each item is a JSON object (given by its "message" member) or bytes that
\* are no JSON at all.  The "message" member is absent, a number or a string.
Junk == [item |-> "junk", member |-> "none", str |-> ""]
Obj(member, s) == [item |-> "object", member |-> member, str |-> s]

\* The objects clients send here: no message, an empty one, a text.
Objects ==
    {Obj("absent", "")} \cup {Obj("string", s) : s \in Msgs \cup {""}}

\* The bodies clients send here: bytes that are no JSON, one object, and an
\* object with a message followed by bytes that are no JSON.
Bodies ==
    {<<Junk>>}
        \cup {<<o>> : o \in Objects}
        \cup {<<Obj("string", s), Junk>> : s \in Msgs}

\* The body as a whole is a JSON document: one value and nothing else.
IsJSON(body) == Len(body) = 1 /\ body[1].item = "object"

Methods == {"POST", "OPTIONS", "GET"}

\* The bodies sent with each method: any with POST; the handler does not
\* read the body of another method, which is here empty or a chat message.
BodiesOf(method) ==
    IF method = "POST" THEN Bodies
    ELSE {<<>>} \cup {<<Obj("string", s)>> : s \in Msgs}

\* json.NewDecoder(r.Body).Decode(&req): the decoder reads the FIRST value
\* of the stream and stops there; what follows it is never looked at.
\* A number cannot be stored in the string field; an absent member leaves
\* the field at its zero value "".
Decode(body) ==
    IF body = <<>> THEN [err |-> "EOF", Message |-> ""]
    ELSE IF body[1].item = "junk"
        THEN [err |-> "invalid character", Message |-> ""]
    ELSE IF body[1].member = "number"
        THEN [err |-> "cannot unmarshal number into Go struct field", Message |-> ""]
    ELSE [err |-> "", Message |-> body[1].str]

\* -------------------------------------------------------------- responses
NoBody == [kind |-> "none", text |-> "", reply |-> "", error |-> ""]
TextBody(t) == [kind |-> "text", text |-> t, reply |-> "", error |-> ""]

\* json.NewEncoder(w).Encode(ChatReply{...}): "reply" is always written,
\* "error" is omitted when empty (omitempty); kind tells which members the
\* JSON object has.
EncodeChatReply(reply, error) ==
    [kind |-> IF error = "" THEN "json{reply}" ELSE "json{reply,error}",
     text |-> "", reply |-> reply, error |-> error]

Response(status, body) == [status |-> status, body |-> body]

\* No response at all: nothing has been written yet, or the connection was
\* closed by net/http after the handler panicked.
NoResponse == Response(0, NoBody)

\* func writeError(w, msg)
writeError(msg) == Response(StatusInternalServerError, EncodeChatReply("", msg))

\* --------------------------------------------------- the upstream provider
\* What http.DefaultClient.Do and io.ReadAll can produce.  A response body
\* is its raw text together with what json.Unmarshal makes of it: not JSON,
\* or an object whose choices carry these contents.
UpBody(raw, isjson, choices) == [raw |-> raw, json |-> isjson, choices |-> choices]

UpResult(doErr, readErr, code, status, body) ==
    [doErr |-> doErr, readErr |-> readErr, StatusCode |-> code,
     Status |-> status, Body |-> body]

UpstreamResults ==
    {UpResult("connection refused", "", 0, "", UpBody("", FALSE, <<>>)),
     UpResult("", "unexpected EOF", StatusOK, "200 OK", UpBody("", FALSE, <<>>)),
     UpResult("", "", 503, "503 Service Unavailable", UpBody("overloaded", FALSE, <<>>)),
     UpResult("", "", StatusOK, "200 OK", UpBody("<html>", FALSE, <<>>)),
     UpResult("", "", StatusOK, "200 OK", UpBody("{choices:[]}", TRUE, <<>>))}
        \cup {UpResult("", "", StatusOK, "200 OK", UpBody("{choices:[..]}", TRUE, <<r>>))
                : r \in Replies}

\* ------------------------------------------------------------------- state
VARIABLES
    messages,   \* var messages []Message
    mu,         \* var mu sync.Mutex: TRUE when locked
    pc,         \* where each handler is
    req,        \* each handler's req.Message
    jsonData,   \* the messages of the payload each handler sent upstream
    resp        \* the response each handler wrote

vars == <<messages, mu, pc, req, jsonData, resp>>

\* main(): messages = []Message{{Role: "system", ...}}
Init ==
    /\ messages = <<SystemTurn>>
    /\ mu = FALSE
    /\ pc = [p \in Handlers |-> "idle"]
    /\ req = [p \in Handlers |-> ""]
    /\ jsonData = [p \in Handlers |-> <<>>]
    /\ resp = [p \in Handlers |-> NoResponse]

\* Faulty variants of resetConversation: one keeps the history, one drops
\* the system Turn too.
resetKeepsAll(msgs) == msgs

resetToEmpty(msgs) == <<>>

\* func resetConversation()

resetConversation(msgs) == <<SystemTurn>>


\* lines 126-133: reset when over the threshold, then append the user Turn.
\* (faulty variant: the threshold is never tested)
appendUserNoReset(msgs, m) == Append(msgs, Message("user", m))

appendUser(msgs, m) ==
    Append(IF Len(msgs) > MaxTurns THEN resetConversation(msgs) ELSE msgs,
           Message("user", m))

\* lines 188-191: append the assistant Turn.
\* (faulty variant: the Turn is put in front)
appendAssistantFirst(msgs, reply) == <<Message("assistant", reply)>> \o msgs

appendAssistant(msgs, reply) == Append(msgs, Message("assistant", reply))

\* ---------------------------------------------------------------- handler
\* lines 98-121: CORS preflight, method check, decoding and validation.
\* `next` is where the handler goes: "done" (it returned) or "lock" (it
\* goes on to mu.Lock()).
Returned(response) == [next |-> "done", resp |-> response, Message |-> ""]

\* (faulty variant: the method is never tested)
DispatchAnyMethod(method, body) ==
    LET d == Decode(body) IN
    IF d.err # "" THEN Returned(writeError("Invalid JSON: " \o d.err))
    ELSE IF d.Message = "" THEN Returned(writeError("Message is required"))
    ELSE [next |-> "lock", resp |-> NoResponse, Message |-> d.Message]

Dispatch(method, body) ==
    IF method = "OPTIONS" THEN Returned(Response(StatusOK, NoBody))
    ELSE IF method # "POST"
        THEN Returned(Response(StatusMethodNotAllowed, TextBody("Only POST allowed\n")))
    ELSE LET d == Decode(body) IN
         IF d.err # "" THEN Returned(writeError("Invalid JSON: " \o d.err))
         ELSE IF d.Message = "" THEN Returned(writeError("Message is required"))
         ELSE [next |-> "lock", resp |-> NoResponse, Message |-> d.Message]

\* lines 162-194: what the handler does with the upstream result.  `turns`
\* is the transcript it leaves behind.  With an empty choices list
\* apiRes.Choices[0] panics: nothing is appended and nothing is written.
\* (faulty variant: a failure removes the user Turn again)
HandleRollsBack(msgs, r) ==
    IF r.doErr # "" \/ r.readErr # "" \/ r.StatusCode # StatusOK \/ ~r.Body.json
        THEN [resp |-> writeError("API call error: " \o r.doErr),
              turns |-> SubSeq(msgs, 1, Len(msgs) - 1), panic |-> FALSE]
    ELSE IF Len(r.Body.choices) = 0
        THEN [resp |-> NoResponse, turns |-> msgs, panic |-> TRUE]
    ELSE LET reply == r.Body.choices[1] IN
         [resp |-> Response(StatusOK, EncodeChatReply(reply, "")),
          turns |-> appendAssistant(msgs, reply), panic |-> FALSE]

Handle(msgs, r) ==
    IF r.doErr # ""
        THEN [resp |-> writeError("API call error: " \o r.doErr),
              turns |-> msgs, panic |-> FALSE]
    ELSE IF r.readErr # ""
        THEN [resp |-> writeError("Read response error: " \o r.readErr),
              turns |-> msgs, panic |-> FALSE]
    ELSE IF r.StatusCode # StatusOK
        THEN [resp |-> writeError("API error (" \o r.Status \o "): " \o r.Body.raw),
              turns |-> msgs, panic |-> FALSE]
    ELSE IF ~r.Body.json
        THEN [resp |-> writeError("Unmarshal error: invalid character"),
              turns |-> msgs, panic |-> FALSE]
    ELSE IF Len(r.Body.choices) = 0
        THEN [resp |-> NoResponse, turns |-> msgs, panic |-> TRUE]
    ELSE LET reply == r.Body.choices[1] IN
         [resp |-> Response(StatusOK, EncodeChatReply(reply, "")),
          turns |-> appendAssistant(msgs, reply), panic |-> FALSE]

\* mu.Lock() returns only when the mutex is not held.
\* (faulty variant: it returns at once)
LockNeverBlocks == TRUE

CanLock == ~mu

\* defer mu.Unlock(): runs on every return and while a panic unwinds.
\* (faulty variant: an unlock at the end of the function, which a panic skips)
UnlockSkippedOnPanic(h) == h.panic

deferredUnlock(h) == FALSE

\* ---------------------------------------------------------------- actions
\* A request arrives and runs up to its return or up to mu.Lock().
Receive(p, method, body) ==
    /\ pc[p] = "idle"
    /\ LET d == Dispatch(method, body) IN
        /\ pc' = [pc EXCEPT ![p] = d.next]
        /\ req' = [req EXCEPT ![p] = d.Message]
        /\ resp' = [resp EXCEPT ![p] = d.resp]
    /\ UNCHANGED <<messages, mu, jsonData>>

\* lines 123-162: take the lock, reset if needed, append the user Turn,
\* marshal the payload and start the upstream call.
Lock(p) ==
    /\ pc[p] = "lock"
    /\ CanLock
    /\ mu' = TRUE
    /\ messages' = appendUser(messages, req[p])
    /\ jsonData' = [jsonData EXCEPT ![p] = messages']
    /\ pc' = [pc EXCEPT ![p] = "upstream"]
    /\ UNCHANGED <<req, resp>>

\* lines 162-194: the upstream call returns r; the handler answers and
\* returns, and the deferred unlock runs.
Return(p, r) ==
    /\ pc[p] = "upstream"
    /\ LET h == Handle(messages, r) IN
        /\ messages' = h.turns
        /\ resp' = [resp EXCEPT ![p] = h.resp]
        /\ mu' = deferredUnlock(h)
    /\ jsonData' = [jsonData EXCEPT ![p] = <<>>]
    /\ pc' = [pc EXCEPT ![p] = "done"]
    /\ UNCHANGED req

\* The request is over; the goroutine serves the next one.
Finish(p) ==
    /\ pc[p] = "done"
    /\ pc' = [pc EXCEPT ![p] = "idle"]
    /\ req' = [req EXCEPT ![p] = ""]
    /\ resp' = [resp EXCEPT ![p] = NoResponse]
    /\ UNCHANGED <<messages, mu, jsonData>>

Receives(p) ==
    \E method \in Methods : \E body \in BodiesOf(method) : Receive(p, method, body)

Returns(p) == \E r \in UpstreamResults : Return(p, r)

Next ==
    \E p \in Handlers :
        \/ Receives(p)
        \/ Lock(p)
        \/ Returns(p)
        \/ Finish(p)

Spec == Init /\ [][Next]_vars

\* Every upstream call returns, every started request runs on, and the
\* mutex is granted to each waiter that keeps asking (sync.Mutex hands the
\* lock to the longest waiter in starvation mode).
FairSpec ==
    /\ Spec
    /\ \A p \in Handlers : WF_vars(Returns(p)) /\ SF_vars(Lock(p))

\* ================================================================= claims
Last(seq) == seq[Len(seq)]

UserTurn(m) == Message("user", m)
AssistantTurn(c) == Message("assistant", c)

\* The upstream result r is a success: status 200, JSON, a first choice.
IsSuccess(r) ==
    /\ r.doErr = "" /\ r.readErr = ""
    /\ r.StatusCode = 200
    /\ r.Body.json /\ Len(r.Body.choices) >= 1

\* The upstream result r is one of the failures the handler reports.
IsFailure(r) ==
    \/ r.doErr # "" \/ r.readErr # ""
    \/ r.StatusCode # 200
    \/ ~r.Body.json

\* The response is a 500 whose JSON body has a non-empty error member.
IsError500(response) ==
    /\ response.status = 500
    /\ response.body.kind = "json{reply,error}"
    /\ response.body.error # ""

\* The response is 200 {reply: c}.
IsReply200(response, c) ==
    /\ response.status = 200
    /\ response.body.kind = "json{reply}"
    /\ response.body.reply = c

\* C1: a valid request whose upstream call succeeds with first-choice
\* content R is answered 200 {reply: R}; the transcript it leaves is the
\* transcript it found when it took the lock (after the reset, if any)
\* followed by its user Turn and then its assistant Turn, and nothing
\* changes the transcript in between.
C1_SuccessAppendsUserThenAssistant ==
    [][\A p \in Handlers :
        /\ Lock(p) =>
            /\ \E base \in {messages, <<SystemTurn>>} :
                 messages' = base \o <<UserTurn(req[p])>>
            /\ jsonData'[p] = messages'
        /\ (pc[p] = "upstream" /\ pc'[p] = "upstream") => messages' = messages
        /\ pc[p] = "upstream" => messages = jsonData[p]
        /\ (pc[p] = "upstream" /\ pc'[p] = "done") =>
           \A r \in UpstreamResults :
             (Return(p, r) /\ IsSuccess(r)) =>
                /\ IsReply200(resp'[p], r.Body.choices[1])
                /\ messages' =
                     jsonData[p] \o <<AssistantTurn(r.Body.choices[1])>>
                /\ Last(jsonData[p]) = UserTurn(req[p])
    ]_vars

\* Some request was answered 200 {reply: R} and its two Turns end the
\* transcript, after an earlier exchange.
C1_Witness ==
    \E p \in Handlers :
        /\ pc[p] = "done"
        /\ \E c \in Replies : IsReply200(resp[p], c) /\ Last(messages) = AssistantTurn(c)
        /\ Len(messages) >= 5
        /\ messages[Len(messages) - 1] = UserTurn(req[p])

\* The bodies C2 speaks of: not a JSON document, or a JSON object whose
\* message is absent or the empty string.
IsInvalidBody(body) ==
    \/ ~IsJSON(body)
    \/ body[1].member = "absent"
    \/ body[1].member = "string" /\ body[1].str = ""

\* C2: a POST whose body is invalid JSON, or whose message is absent or
\* empty, is answered 500 with a non-empty error, before the lock is taken,
\* and leaves the transcript as it was.
C2_InvalidBodyRejected ==
    [][\A p \in Handlers :
        (pc[p] = "idle" /\ pc'[p] # "idle") =>
            \A body \in Bodies :
                (Receive(p, "POST", body) /\ IsInvalidBody(body)) =>
                    /\ IsError500(resp'[p])
                    /\ pc'[p] = "done"
                    /\ messages' = messages
                    /\ mu' = mu
    ]_vars

\* C3: taking the lock with more than 10 Turns resets the transcript, so
\* upstream receives exactly [system Turn, new user Turn]; with 10 Turns or
\* fewer upstream receives the whole transcript and the new user Turn.
C3_ResetAboveTen ==
    [][\A p \in Handlers :
        Lock(p) =>
            IF Len(messages) > 10
                THEN jsonData'[p] = <<SystemTurn, UserTurn(req[p])>>
                ELSE jsonData'[p] = Append(messages, UserTurn(req[p]))
    ]_vars

\* A request is in its upstream call with 2 messages after another request
\* was answered with a reply: the transcript held at least 3 Turns before,
\* and only the reset of this very request brings it to 2.
C3_Witness ==
    \E p, q \in Handlers :
        /\ pc[p] = "upstream"
        /\ jsonData[p] = <<SystemTurn, UserTurn(req[p])>>
        /\ pc[q] = "done"
        /\ \E c \in Replies : IsReply200(resp[q], c)

\* C4: at most one request is between taking the lock and releasing it,
\* and the lock is held exactly while one is.
C4_Serialized ==
    /\ Cardinality({p \in Handlers : pc[p] = "upstream"}) <= 1
    /\ mu <=> (\E p \in Handlers : pc[p] = "upstream")

\* One request is in its upstream call while another waits for the lock.
C4_Witness ==
    \E p, q \in Handlers : pc[p] = "upstream" /\ pc[q] = "lock"

\* C5: the transcript is never empty, starts with the system Turn, and has
\* no other system Turn.
C5_SystemTurnFirstOnly ==
    /\ Len(messages) >= 1
    /\ messages[1] = SystemTurn
    /\ \A i \in 2..Len(messages) : messages[i].Role # "system"

\* After an upstream failure, a success and a reset: the failed request is
\* still unfinished, yet its user Turn is gone from the 3-Turn transcript.
C5_Witness ==
    \E p, q \in Handlers :
        /\ pc[p] = "done" /\ IsError500(resp[p]) /\ req[p] # ""
        /\ pc[q] = "done" /\ \E c \in Replies : IsReply200(resp[q], c)
        /\ Len(messages) = 3

\* The transcript ends with a user Turn that no assistant Turn answers and
\* no request is working on: a request appended it and then failed.
HasUnansweredTurn == ~mu /\ Len(messages) >= 2 /\ Last(messages).Role = "user"

\* What C6 says of a failing upstream call: 500 with a non-empty error, no
\* assistant Turn, and the user Turn of the request stays the last Turn.
FailureKeepsUserTurn(p) ==
    (pc[p] = "upstream" /\ pc'[p] = "done") =>
      \A r \in UpstreamResults :
        (Return(p, r) /\ IsFailure(r)) =>
            /\ IsError500(resp'[p])
            /\ messages' = messages
            /\ Last(messages') = UserTurn(req[p])

\* C6 as stated: an upstream failure is answered 500, appends no assistant
\* Turn and keeps the user Turn, and the upstream call of the next request
\* sees that unanswered user Turn.
C6_NextSeesUnansweredTurn ==
    [][\A p \in Handlers :
        /\ FailureKeepsUserTurn(p)
        /\ (Lock(p) /\ HasUnansweredTurn) =>
             jsonData'[p] = Append(messages, UserTurn(req[p]))
    ]_vars

\* C6 as amended: the next request's upstream call sees the unanswered
\* user Turn when the transcript holds 10 Turns or fewer at the time that
\* request takes the lock; with more than 10 Turns the reset removes it.
C6_NextSeesUnansweredTurnUnlessReset ==
    [][\A p \in Handlers :
        /\ FailureKeepsUserTurn(p)
        /\ (Lock(p) /\ HasUnansweredTurn) =>
             IF Len(messages) <= 10
                THEN jsonData'[p] = Append(messages, UserTurn(req[p]))
                ELSE jsonData'[p] = <<SystemTurn, UserTurn(req[p])>>
    ]_vars

\* A request failed upstream and is still unfinished while the next
\* request's upstream call holds its unanswered user Turn before its own.
C6_Witness ==
    \E p, q \in Handlers :
        /\ pc[p] = "done" /\ IsError500(resp[p]) /\ req[p] # ""
        /\ pc[q] = "upstream"
        /\ Len(jsonData[q]) >= 3
        /\ jsonData[q][Len(jsonData[q]) - 1] = UserTurn(req[p])
        /\ Last(jsonData[q]) = UserTurn(req[q])

\* C7: OPTIONS is answered 200 with no body and any method other than POST
\* and OPTIONS 405; neither takes the lock, calls upstream or changes the
\* transcript, whether or not the lock is held.
C7_MethodDispatch ==
    [][\A p \in Handlers :
        (pc[p] = "idle" /\ pc'[p] # "idle") =>
            \A method \in Methods \ {"POST"} : \A body \in Bodies :
                Receive(p, method, body) =>
                    /\ IF method = "OPTIONS"
                         THEN resp'[p].status = 200 /\ resp'[p].body.kind = "none"
                         ELSE resp'[p].status = 405
                    /\ pc'[p] = "done"
                    /\ messages' = messages
                    /\ mu' = mu
                    /\ jsonData' = jsonData
    ]_vars

\* A 405 was given while another request holds the lock in its upstream
\* call.
C7_Witness ==
    \E p, q \in Handlers :
        /\ pc[p] = "done" /\ resp[p].status = 405
        /\ pc[q] = "upstream" /\ mu

\* C8: the transcript never holds more than 12 Turns and no upstream call
\* is sent more than 11.
C8_LengthCapped ==
    /\ Len(messages) <= 12
    /\ \A p \in Handlers : Len(jsonData[p]) <= 11

\* The transcript holds 12 Turns.
C8_Witness == Len(messages) = 12

\* A POST body that passes decoding and validation.
IsValidRequest(body) == Decode(body).err = "" /\ Decode(body).Message # ""

\* The request of q, having taken or being about to take the lock, returns.
LockedRequestReturns(q) == pc[q] \in {"lock", "upstream"} /\ pc'[q] = "done"

\* C9 as stated: while a request holds the lock in its upstream call, no
\* other POST request receives a response.
C9_NoPostAnsweredWhileHung ==
    [][\A p, q \in Handlers :
        (p # q /\ pc[p] = "upstream" /\ pc'[p] = "upstream") =>
            /\ ~LockedRequestReturns(q)
            /\ (pc[q] = "idle" /\ pc'[q] # "idle") =>
                 \A body \in Bodies :
                    Receive(q, "POST", body) => resp'[q] = NoResponse
    ]_vars

\* C9 as amended: while a request holds the lock in its upstream call, no
\* other POST request whose body decodes to a non-empty message receives a
\* response.
C9_NoValidPostAnsweredWhileHung ==
    [][\A p, q \in Handlers :
        (p # q /\ pc[p] = "upstream" /\ pc'[p] = "upstream") =>
            /\ ~LockedRequestReturns(q)
            /\ (pc[q] = "idle" /\ pc'[q] # "idle") =>
                 \A body \in Bodies :
                    (Receive(q, "POST", body) /\ IsValidRequest(body)) =>
                        resp'[q] = NoResponse
    ]_vars

\* A later valid request waits for the lock, unanswered, while another
\* request is in its upstream call.
C9_Witness ==
    \E p, q \in Handlers :
        /\ pc[p] = "upstream" /\ Len(jsonData[p]) >= 3
        /\ pc[q] = "lock" /\ req[q] # "" /\ resp[q] = NoResponse

\* C10: a request that has returned does not hold the lock, whatever the
\* exit path; and under FairSpec every request that reaches mu.Lock()
\* eventually returns.
C10_LockReleasedAndRequestsFinish ==
    /\ [](mu => \E p \in Handlers : pc[p] = "upstream")
    /\ \A p \in Handlers : (pc[p] = "lock") ~> (pc[p] = "done")

\* A request has panicked on an empty choices list (it returned without a
\* response), the lock is free and another request is waiting for it.
C10_Witness ==
    \E p, q \in Handlers :
        /\ pc[p] = "done" /\ resp[p] = NoResponse
        /\ pc[q] = "lock"
        /\ ~mu
        /\ Last(messages) = UserTurn(req[p])
====
